---- MODULE Spec2Model ----
(***************************************************************************)
(* rzepa: movie creation / dedup (MovieViewSet.create) and the top-movies   *)
(* ranking (TopMoviesView.get) over the movie, rating and comment           *)
(* relations.                                                               *)
(***************************************************************************)
EXTENDS Integers, Sequences, FiniteSets, TLC

VARIABLES movies, ratings, comments, req, nreq, top

vars == <<movies, ratings, comments, req, nreq, top>>

\* ------------------------------------------------------------------ bounds
MaxRatings == 3
MaxRequests == 2
MaxMovies == 3
MaxComments == 3
MaxTime == 2

\* ------------------------------------------------------ provider and inputs
Procs == {1, 2}

\* request.data without the "title" key
NoTitle == "<no title>"

InputTitles == {"kane", "The Room"}

\* The provider answers a search seed with the record of one canonical title.
CanonicalTitle(t) == IF t = "kane" THEN "Citizen Kane" ELSE t

\* What the movie fields of a provider record can be: fine, rejected by the
\* serializer, or passing the serializer with a value wider than its column.
FieldKinds == {"ok", "invalid", "toolong"}

Sources == <<"Internet Movie Database", "Metacritic", "Rotten Tomatoes">>

GoodValue == "8.4/10"
BlankValue == ""
WideValue == "<value wider than the column>"

RatingValues == {GoodValue, BlankValue, WideValue}

SourceOf(i) == IF i <= Len(Sources) THEN Sources[i] ELSE "Source " \o ToString(i)

\* The "Ratings" lists a provider record can carry: the i-th has the i-th source.
RatingLists(values) ==
    UNION {{[i \in 1..n |-> [Source |-> SourceOf(i), Value |-> f[i]]] :
              f \in [1..n -> values]} :
           n \in 0..MaxRatings}

AllRatingLists == RatingLists(RatingValues)
GoodRatingLists == RatingLists({GoodValue})

\* OMDbAPIClient().fetch(title): the records the provider may answer with.
Fetch(title, lists) ==
    {[Title |-> CanonicalTitle(title), fields |-> k, Ratings |-> rs] :
        k \in FieldKinds, rs \in lists}

\* --------------------------------------------------------------- storage
\* psycopg2's text for a value wider than its column ends with a line break.
DataErrorText == <<"value too long for type character varying(128)", "\n">>

Whitespace == {" ", "\n", "\t"}

RECURSIVE LStrip(_)
LStrip(s) == IF s # <<>> /\ Head(s) \in Whitespace THEN LStrip(Tail(s)) ELSE s

RECURSIVE RStrip(_)
RStrip(s) ==
    IF s # <<>> /\ s[Len(s)] \in Whitespace
    THEN RStrip(SubSeq(s, 1, Len(s) - 1))
    ELSE s

\* str(e).strip()
Strip(s) == RStrip(LStrip(s))

\* serializer.is_valid() of MovieSerializer
MovieIsValid(data) == data.fields # "invalid"

\* Variant: a title column without the unique index.
InsertMovieUnchecked(ms, data) ==
    IF data.fields = "toolong" THEN "DataError" ELSE "ok"

\* What the storage answers to the INSERT of serializer.save(): the column
\* width is checked when the row is formed, the unique index on title after.
InsertMovie(ms, data) ==
    IF data.fields = "toolong" THEN "DataError"
    ELSE IF \E m \in ms : m.title = data.Title THEN "IntegrityError"
    ELSE "ok"

NewMovieRow(ms, data) == [id |-> Cardinality(ms) + 1, title |-> data.Title]

\* rating_serializer.is_valid()
RatingIsValid(rating) == rating.Value # BlankValue

\* rating_serializer.save(): "DataError" for a value wider than its column
InsertRating(rating) == IF rating.Value = WideValue THEN "DataError" ELSE "ok"

NewRatingRow(rs, rating) ==
    [id |-> Cardinality(rs) + 1, movie_id |-> rating.movie_id,
     Source |-> rating.Source, Value |-> rating.Value]

\* ------------------------------------------------------------- responses
NoResponse ==
    [status |-> 0, string |-> <<>>, Title |-> "", Ratings |-> <<>>, raised |-> ""]

Response400(text) == [NoResponse EXCEPT !.status = 400, !.string = text]

\* an exception that leaves create(): no Response is built
Unhandled(exc) == [NoResponse EXCEPT !.raised = exc]

MissingTitleResponse == Response400(<<"Title is a required parameter">>)

\* Variant: the except clause names another exception and the DataError leaves create().
SaveFailedUncaught(text) == Unhandled("DataError")

\* except DataError as e: return Response({"string": str(e).strip()}, status=400)
SaveFailedResponse(text) == Response400(Strip(text))

\* The else branch of `if serializer.is_valid()` reads e, which is bound only
\* inside the except clause of the other branch.
InvalidResponse == Unhandled("UnboundLocalError")

\* data["Ratings"] = ratings; return Response(data, status=201)
CreatedResponse(data, rs) ==
    [NoResponse EXCEPT !.status = 201, !.Title = data.Title, !.Ratings = rs]

\* ------------------------------------------------------------ top movies
Times == 1..MaxTime

\* request.query_params.get("from"), .get("to"): absent, or a time
NoBound == [given |-> FALSE, at |-> 1]

QueryBounds == {NoBound} \cup {[given |-> TRUE, at |-> t] : t \in Times}

NoTop == [asked |-> FALSE, from |-> NoBound, to |-> NoBound, response |-> <<>>]

\* ------------------------------------------------------------- requests
Idle ==
    [pc |-> "idle", title |-> NoTitle,
     data |-> [Title |-> "", fields |-> "ok", Ratings |-> <<>>],
     movie |-> 0, path |-> "",
     before |-> [movies |-> {}, ratings |-> {}],
     newMovies |-> {}, newRatings |-> {}, resp |-> NoResponse]

Init ==
    /\ movies = {}
    /\ ratings = {}
    /\ comments = {}
    /\ req = [p \in Procs |-> Idle]
    /\ nreq = 0
    /\ top = NoTop

\* Variant: the lookup by the title the caller sent.
LookupInputTitle(r) == r.title

\* Movie.objects.get(title=data["Title"]): the title looked up
LookupTitle(r) == r.data.Title

Found(ms, t) == {m \in ms : m.title = t}

\* rating["movie_id"] = movie.id
WithMovie(rating, mid) ==
    [Source |-> rating.Source, Value |-> rating.Value, movie_id |-> mid]

\* Variant: the loop ends at the first rating that fails (break for continue).
RECURSIVE AttachAbortOnFailure(_, _, _)
AttachAbortOnFailure(rs, list, mid) ==
    IF list = <<>> THEN rs
    ELSE LET rating == WithMovie(Head(list), mid) IN
         IF RatingIsValid(rating) /\ InsertRating(rating) = "ok"
         THEN AttachAbortOnFailure(rs \cup {NewRatingRow(rs, rating)}, Tail(list), mid)
         ELSE rs

\* The loop over the provider's ratings: the rating relation after it.
RECURSIVE AttachRatings(_, _, _)
AttachRatings(rs, list, mid) ==
    IF list = <<>> THEN rs
    ELSE LET rating == WithMovie(Head(list), mid) IN
         IF RatingIsValid(rating) /\ InsertRating(rating) = "ok"
         THEN AttachRatings(rs \cup {NewRatingRow(rs, rating)}, Tail(list), mid)
         ELSE AttachRatings(rs, Tail(list), mid)

\* The list the response carries: the loop has set movie_id on each rating.
Tagged(list, mid) == [i \in 1..Len(list) |-> WithMovie(list[i], mid)]

Finish(p, r, resp) ==
    req' = [req EXCEPT ![p] = [r EXCEPT !.pc = "done", !.resp = resp]]

\* A request arrives: the title is read, the provider fetched, the ratings popped,
\* the movie fields validated and the movie looked up by title.
Begin(p, lists) ==
    /\ req[p].pc \in {"idle", "done"}
    /\ nreq < MaxRequests
    /\ nreq' = nreq + 1
    /\ UNCHANGED <<movies, ratings, comments, top>>
    /\ \E title \in InputTitles \cup {NoTitle} :
         LET r0 == [Idle EXCEPT !.title = title,
                                !.before = [movies |-> movies,
                                               ratings |-> ratings]] IN
         IF title = NoTitle
         THEN Finish(p, r0, MissingTitleResponse)
         ELSE \E data \in Fetch(title, lists) :
                LET r == [r0 EXCEPT !.data = data] IN
                IF ~MovieIsValid(data)
                THEN Finish(p, r, InvalidResponse)
                ELSE LET found == Found(movies, LookupTitle(r)) IN
                     IF found = {}
                     THEN req' = [req EXCEPT ![p] =
                                    [r EXCEPT !.pc = "save", !.path = "new"]]
                     ELSE \E m \in found :
                            req' = [req EXCEPT ![p] =
                                      [r EXCEPT !.pc = "attach", !.path = "dup",
                                                !.movie = m.id]]

\* except Movie.DoesNotExist: movie = serializer.save(), then the response
Save(p) ==
    LET r == req[p]
        outcome == InsertMovie(movies, r.data)
        row == NewMovieRow(movies, r.data)
    IN
    /\ r.pc = "save"
    /\ UNCHANGED <<ratings, comments, nreq, top>>
    /\ CASE outcome = "ok" ->
              /\ movies' = movies \cup {row}
              /\ Finish(p, [r EXCEPT !.movie = row.id, !.newMovies = {row}],
                        CreatedResponse(r.data, r.data.Ratings))
         [] outcome = "DataError" ->
              /\ UNCHANGED movies
              /\ Finish(p, r, SaveFailedResponse(DataErrorText))
         [] OTHER ->
              /\ UNCHANGED movies
              /\ Finish(p, r, Unhandled(outcome))

\* else: the movie exists; its ratings are attached, then the response
Attach(p) ==
    LET r == req[p]
        after == AttachRatings(ratings, r.data.Ratings, r.movie)
    IN
    /\ r.pc = "attach"
    /\ UNCHANGED <<movies, comments, nreq, top>>
    /\ ratings' = after
    /\ Finish(p, [r EXCEPT !.newRatings = after \ ratings],
              CreatedResponse(r.data, Tagged(r.data.Ratings, r.movie)))

\* ------------------------------------------------------------ top movies
TestTitles == <<"Godfather", "The Room", "Fantastic Four", "Gone With The Wind">>

TitleOf(i) == IF i <= Len(TestTitles) THEN TestTitles[i] ELSE "Movie " \o ToString(i)

\* Movie.objects.create(title=...)
AddMovie ==
    /\ Cardinality(movies) < MaxMovies
    /\ movies' = movies \cup
                   {[id |-> Cardinality(movies) + 1,
                     title |-> TitleOf(Cardinality(movies) + 1)]}
    /\ top' = NoTop
    /\ UNCHANGED <<ratings, comments, req, nreq>>

\* Comment.objects.create(movie=..., created_at=...): a row of the comment
\* relation, keyed by its movie, its time and its number among those.
AddComment ==
    /\ Cardinality(comments) < MaxComments
    /\ \E m \in movies, t \in Times :
         LET same == {c \in comments : c.movie = m.id /\ c.created_at = t} IN
         comments' = comments \cup
                       {[id |-> <<m.id, t, Cardinality(same) + 1>>,
                         movie |-> m.id, created_at |-> t]}
    /\ top' = NoTop
    /\ UNCHANGED <<movies, ratings, req, nreq>>

\* if date_from: / if date_to:
Truthy(b) == b.given

\* Variant: an exclusive lower bound (__gt).
GteStrict(created_at, from) == created_at > from

\* Q(comments__created_at__gte=date_from)
Gte(created_at, from) == created_at >= from

\* Q(comments__created_at__lte=date_to)
Lte(created_at, to) == created_at <= to

\* Variant: an inner join, which keeps no movie without comments.
InnerJoin(ms, cs) ==
    {[id |-> p[1].id, comment |-> <<p[2]>>] :
        p \in {q \in ms \X cs : q[2].movie = q[1].id}}

\* Movie joined to its comments, a movie without comments kept with a null
\* comment (<<>>).
CommentsJoin(ms, cs) ==
    {[id |-> p[1].id, comment |-> <<p[2]>>] :
        p \in {q \in ms \X cs : q[2].movie = q[1].id}}
    \cup {[id |-> m.id, comment |-> <<>>] :
            m \in {x \in ms : \A c \in cs : c.movie # x.id}}

\* qs.filter(*filters): a condition on a null comment is not true.
Filtered(rows, from, to) ==
    {r \in rows :
        /\ Truthy(from) =>
              r.comment # <<>> /\ Gte(r.comment[1].created_at, from.at)
        /\ Truthy(to) =>
              r.comment # <<>> /\ Lte(r.comment[1].created_at, to.at)}

\* .annotate(total_comments=Count("comments")).values("id", "total_comments")
Annotated(rows) ==
    {[id |-> i,
      total_comments |->
          Cardinality({r \in rows : r.id = i /\ r.comment # <<>>})] :
       i \in {r.id : r \in rows}}

\* .order_by("-total_comments"): any order of the rows that descends by count
Orders(rows) ==
    {s \in [1..Cardinality(rows) -> rows] :
        /\ \A i, j \in DOMAIN s : i # j => s[i] # s[j]
        /\ \A i \in DOMAIN s :
              i > 1 => s[i - 1].total_comments >= s[i].total_comments}

\* Variant: without the `not last_rank` test for the first element.
NextRankNoFirst(last_rank, last_count, total) ==
    IF total < last_count THEN last_rank + 1 ELSE last_rank

\* if not last_rank or element["total_comments"] < last_count: last_rank += 1
NextRank(last_rank, last_count, total) ==
    IF last_rank = 0 \/ total < last_count THEN last_rank + 1 ELSE last_rank

\* for element in qs.all(): ...
RECURSIVE RankLoop(_, _, _, _)
RankLoop(qs, last_count, last_rank, response) ==
    IF qs = <<>> THEN response
    ELSE LET element == Head(qs)
             rank == NextRank(last_rank, last_count, element.total_comments)
         IN RankLoop(Tail(qs), element.total_comments, rank,
                     Append(response,
                            [movie_id |-> element.id, rank |-> rank,
                             total_comments |-> element.total_comments]))

\* TopMoviesView.get
TopGet ==
    /\ \E from \in QueryBounds, to \in QueryBounds :
         \E qs \in Orders(Annotated(Filtered(CommentsJoin(movies, comments), from, to))) :
            top' = [asked |-> TRUE, from |-> from, to |-> to,
                    response |-> RankLoop(qs, 0, 0, <<>>)]
    /\ UNCHANGED <<movies, ratings, comments, req, nreq>>

NextTop == AddMovie \/ AddComment \/ TopGet

SpecTop == Init /\ [][NextTop]_vars

\* ------------------------------------------------------- movie creation
\* One request at a time, any provider record.
Next == Begin(1, AllRatingLists) \/ Save(1) \/ Attach(1)

Spec == Init /\ [][Next]_vars

\* Two requests in flight; the provider's ratings are all well-formed.
NextRace ==
    \E p \in Procs : Begin(p, GoodRatingLists) \/ Save(p) \/ Attach(p)

SpecRace == Init /\ [][NextRace]_vars

\* ------------------------------------------------------------------ claims
Done(p) == req[p].pc = "done"

\* A rating of the provider record that passes validation and fits its column.
GoodRating(rating) == RatingIsValid(rating) /\ InsertRating(rating) = "ok"

\* The rows request p wrote for the i-th rating of its provider record.
RowsFor(p, i) ==
    {row \in req[p].newRatings :
        /\ row.movie_id = req[p].movie
        /\ row.Source = req[p].data.Ratings[i].Source
        /\ row.Value = req[p].data.Ratings[i].Value}

\* The response carries the provider's ratings list, in its order.
CarriesRatings(p) ==
    /\ Len(req[p].resp.Ratings) = Len(req[p].data.Ratings)
    /\ \A i \in DOMAIN req[p].data.Ratings :
          /\ req[p].resp.Ratings[i].Source = req[p].data.Ratings[i].Source
          /\ req[p].resp.Ratings[i].Value = req[p].data.Ratings[i].Value

TitleWasStored(p) ==
    /\ req[p].title # NoTitle
    /\ \E m \in req[p].before.movies : m.title = req[p].data.Title

\* C1: in every reachable state, also of two interleaved creation requests with
\* the same canonical title, no two movie rows have the same title.
C1_OneRowPerTitle ==
    \A m1, m2 \in movies : m1.title = m2.title => m1 = m2

\* Two requests for one new title both passed the lookup, and both have ended.
C1_Witness ==
    \E p, q \in Procs :
        /\ p # q
        /\ Done(p) /\ Done(q)
        /\ req[p].path = "new" /\ req[q].path = "new"
        /\ req[p].data.Title = req[q].data.Title
        /\ req[p].data.fields = "ok" /\ req[q].data.fields = "ok"
        /\ req[p].newMovies # {}

\* C10: a request whose insert the uniqueness constraint rejected ends with a
\* 201 or a 400 response, not an unhandled failure, and has written no row.
C10_RaceLoserFailsCleanly ==
    \A p \in Procs :
        (/\ Done(p)
         /\ req[p].path = "new"
         /\ req[p].data.fields = "ok"
         /\ req[p].newMovies = {})
        => /\ req[p].resp.raised = ""
           /\ req[p].resp.status \in {201, 400}
           /\ req[p].newRatings = {}

\* C5 as stated: a request whose canonical title is already stored leaves the
\* number of movie rows unchanged and ends with 201, the provider record and its
\* ratings list in the response.
C5_DuplicateAlways201 ==
    \A p \in Procs :
        (Done(p) /\ TitleWasStored(p))
        => /\ Cardinality(movies) = Cardinality(req[p].before.movies)
           /\ req[p].resp.status = 201
           /\ req[p].resp.Title = req[p].data.Title
           /\ CarriesRatings(p)

\* C5 amended: the same, for a request whose movie fields pass validation.
C5_ValidDuplicate201 ==
    \A p \in Procs :
        (Done(p) /\ TitleWasStored(p) /\ MovieIsValid(req[p].data))
        => /\ Cardinality(movies) = Cardinality(req[p].before.movies)
           /\ movies = req[p].before.movies
           /\ req[p].resp.status = 201
           /\ req[p].resp.Title = req[p].data.Title
           /\ CarriesRatings(p)

\* A request whose input title differs from the stored canonical title has ended.
C5_Witness ==
    \E p \in Procs :
        /\ Done(p) /\ TitleWasStored(p) /\ MovieIsValid(req[p].data)
        /\ req[p].title # req[p].data.Title
        /\ req[p].data.Ratings # <<>>
        /\ req[p].resp.status = 201

\* C6: a successful request for an unseen title has stored, with the movie row,
\* a rating row for each valid rating of the provider record, on the new movie.
C6_RatingsCreatedWithMovie ==
    \A p \in Procs :
        (Done(p) /\ req[p].path = "new" /\ req[p].resp.status = 201)
        => /\ req[p].newMovies # {}
           /\ \A i \in DOMAIN req[p].data.Ratings :
                 GoodRating(req[p].data.Ratings[i])
                 => Cardinality(RowsFor(p, i)) = 1

\* C7: a request whose movie fields fail validation ends with a 400 response
\* and has written no movie or rating row.
C7_InvalidGives400 ==
    \A p \in Procs :
        (Done(p) /\ req[p].title # NoTitle /\ ~MovieIsValid(req[p].data))
        => /\ req[p].resp.status = 400
           /\ req[p].resp.raised = ""
           /\ movies = req[p].before.movies
           /\ ratings = req[p].before.ratings

\* A request has tried to insert a movie whose fields are wider than a column.
SaveHitDataError(p) ==
    /\ Done(p)
    /\ req[p].path = "new"
    /\ InsertMovie(req[p].before.movies, req[p].data) = "DataError"

\* C8: when the insert of a new movie fails with a storage data error the
\* request ends with a 400 response whose string is the storage error text
\* (without the surrounding white space), and both relations are as before.
C8_DataErrorGives400 ==
    \A p \in Procs :
        SaveHitDataError(p)
        => /\ req[p].resp.status = 400
           /\ req[p].resp.raised = ""
           /\ req[p].resp.string = <<DataErrorText[1]>>
           /\ movies = req[p].before.movies
           /\ ratings = req[p].before.ratings

C8_Witness ==
    \E p \in Procs :
        /\ SaveHitDataError(p)
        /\ req[p].data.Ratings # <<>>
        /\ req[p].before.movies # {}

\* C9: on the duplicate-title path every rating that validates and saves is
\* attached to the existing movie, whatever fails before or after it in the
\* list; a failing rating writes nothing; the response is 201 with the full list.
C9_FailedRatingSkippedAlone ==
    \A p \in Procs :
        (Done(p) /\ req[p].path = "dup")
        => /\ req[p].resp.status = 201
           /\ CarriesRatings(p)
           /\ ratings = req[p].before.ratings \cup req[p].newRatings
           /\ \A i \in DOMAIN req[p].data.Ratings :
                 Cardinality(RowsFor(p, i)) =
                    IF GoodRating(req[p].data.Ratings[i]) THEN 1 ELSE 0
           /\ Cardinality(req[p].newRatings) =
                 Cardinality({i \in DOMAIN req[p].data.Ratings :
                                 GoodRating(req[p].data.Ratings[i])})

\* A duplicate request whose list has a failing rating between two good ones,
\* and one whose list has both kinds of failure, have ended.
C9_Witness ==
    \E p \in Procs :
        /\ Done(p) /\ req[p].path = "dup"
        /\ Len(req[p].data.Ratings) = 3
        /\ GoodRating(req[p].data.Ratings[1])
        /\ ~GoodRating(req[p].data.Ratings[2])
        /\ GoodRating(req[p].data.Ratings[3])
        /\ Cardinality(req[p].newRatings) = 2

\* The comments of movie id inside the window of the last ranking request.
Qualifying(id) ==
    {c \in comments :
        /\ c.movie = id
        /\ top.from.given => c.created_at >= top.from.at
        /\ top.to.given => c.created_at <= top.to.at}

Records(id) == {i \in DOMAIN top.response : top.response[i].movie_id = id}

\* C2 as stated: whatever bounds are supplied, every stored movie has exactly
\* one record, with total_comments 0 when no comment of it is in the window.
C2_EveryMovieEmitted ==
    top.asked =>
        \A m \in movies :
            /\ Cardinality(Records(m.id)) = 1
            /\ \A i \in Records(m.id) :
                  Qualifying(m.id) = {} => top.response[i].total_comments = 0

\* C2 amended: no movie has two records; without bounds every movie has one,
\* with total_comments 0 when it has no comments; with a bound supplied a movie
\* has a record exactly when one of its comments is inside the window.
C2_EmittedIffQualifying ==
    top.asked =>
        /\ \A i \in DOMAIN top.response :
              \E m \in movies : m.id = top.response[i].movie_id
        /\ \A m \in movies :
              /\ Cardinality(Records(m.id)) =
                    IF (~top.from.given /\ ~top.to.given) \/ Qualifying(m.id) # {}
                    THEN 1 ELSE 0
              /\ \A i \in Records(m.id) :
                    Qualifying(m.id) = {} => top.response[i].total_comments = 0

\* A ranking with a bound supplied: a movie whose comments all lie outside the
\* window has no record, a movie with a comment inside has one.
C2_Witness ==
    /\ top.asked /\ (top.from.given \/ top.to.given)
    /\ top.response # <<>>
    /\ \E m \in movies :
          /\ \E c \in comments : c.movie = m.id
          /\ Qualifying(m.id) = {}
          /\ Records(m.id) = {}

\* C3: each record's total_comments is the number of that movie's comments
\* with from <= created_at <= to, for the bounds supplied.
C3_CountsQualifyingComments ==
    top.asked =>
        \A i \in DOMAIN top.response :
            top.response[i].total_comments =
                Cardinality(Qualifying(top.response[i].movie_id))

\* A ranking with both bounds: a counted comment lies on the lower bound, one on
\* the upper, a comment of the same movie lies outside, another movie has comments.
C3_Witness ==
    /\ top.asked /\ top.from.given /\ top.to.given
    /\ \E i \in DOMAIN top.response :
          LET id == top.response[i].movie_id IN
          /\ \E c \in Qualifying(id) : c.created_at = top.from.at
          /\ \E c \in Qualifying(id) : c.created_at = top.to.at
          /\ \E c \in comments : c.movie = id /\ c \notin Qualifying(id)
          /\ \E c \in comments : c.movie # id

\* C4: the records descend by count; the first has rank 1, a record with its
\* predecessor's count has its rank, one with a lower count has that rank + 1;
\* the ranks used are 1..k, k the number of distinct counts.
C4_DenseRanks ==
    top.asked =>
        LET r == top.response IN
        /\ r # <<>> => r[1].rank = 1
        /\ \A i \in DOMAIN r :
              i > 1 =>
                 /\ r[i - 1].total_comments >= r[i].total_comments
                 /\ r[i].rank =
                       IF r[i].total_comments = r[i - 1].total_comments
                       THEN r[i - 1].rank
                       ELSE r[i - 1].rank + 1
        /\ {r[i].rank : i \in DOMAIN r} =
              1..Cardinality({r[i].total_comments : i \in DOMAIN r})

\* Two movies tied at the top and a third below them: ranks 1, 1, 2.
C4_Witness ==
    /\ top.asked
    /\ Len(top.response) = 3
    /\ top.response[1].rank = 1
    /\ top.response[2].rank = 1
    /\ top.response[3].rank = 2

====
